---- MODULE Spec2Model ----
(***************************************************************************)
(* Model of example-client.py: the external engine provider.               *)
(*                                                                         *)
(* One thread of control (main) drives a UCI engine subprocess over two    *)
(* pipes and talks to the broker over HTTP.  The engine and the broker are *)
(* the environment: the engine may write any line to its stdout at any     *)
(* time, close its stdout, or stop reading its stdin; the broker answers   *)
(* polls with any status and may drop a connection during socket I/O.      *)
(*                                                                         *)
(* Text is modelled at character level: a line is a sequence of            *)
(* one-character strings, so that rstrip, split and startswith are         *)
(* computed as str.rstrip, str.split and str.startswith compute them.      *)
(***************************************************************************)
EXTENDS Integers, Sequences, FiniteSets, TLC

\* ------------------------------------------------------------------ bounds
\* Total number of lines the engine writes in one run.
MaxEmit == 3
\* Number of poll requests issued in one run.
MaxPolls == 2
\* Job ids the broker hands out are 1..NumJobIds.
NumJobIds == 2
\* Values secrets.token_urlsafe may return are 1..NumSecrets.
NumSecrets == 2

\* ------------------------------------------------------- characters, lines
Whitespace == {" ", "\n", "\t"}

w_uciok == <<"u", "c", "i", "o", "k">>
w_bestmove == <<"b", "e", "s", "t", "m", "o", "v", "e">>
w_readyok == <<"r", "e", "a", "d", "y", "o", "k">>
w_id == <<"i", "d">>
w_e2e4 == <<"e", "2", "e", "4">>
SP == <<" ">>
NL == <<"\n">>

\* The lines the engine process may write (readline returns them with their
\* newline; only the last line before end of file may lack it).
RawLines ==
  { NL,                                   \* empty line
    SP \o <<"\t">> \o NL,                 \* whitespace-only line
    w_uciok \o NL,                        \* "uciok"
    SP \o w_uciok,                        \* " uciok", unterminated last line
    w_id \o SP \o w_uciok \o SP \o NL,    \* "id uciok ": uciok is not the command
    w_bestmove \o SP \o w_e2e4 \o NL,     \* "bestmove e2e4"
    SP \o w_bestmove \o NL }              \* " bestmove": does not start with it

\* Mutant of rstrip: rstrip("\n"), which leaves blanks and tabs in place.
RECURSIVE rstrip_newline(_)
rstrip_newline(s) ==
  IF s = <<>> THEN <<>>
  ELSE IF s[Len(s)] = "\n" THEN rstrip_newline(SubSeq(s, 1, Len(s) - 1))
  ELSE s

\* str.rstrip(): drop trailing whitespace.
RECURSIVE rstrip(_)
rstrip(s) ==
  IF s = <<>> THEN <<>>
  ELSE IF s[Len(s)] \in Whitespace THEN rstrip(SubSeq(s, 1, Len(s) - 1))
  ELSE s

\* str.lstrip(): drop leading whitespace (the first thing split(None, ..) does).
RECURSIVE lstrip(_)
lstrip(s) ==
  IF s = <<>> THEN <<>>
  ELSE IF s[1] \in Whitespace THEN lstrip(Tail(s))
  ELSE s

\* The longest whitespace-free prefix of s.
RECURSIVE word(_)
word(s) ==
  IF s = <<>> THEN <<>>
  ELSE IF s[1] \in Whitespace THEN <<>>
  ELSE <<s[1]>> \o word(Tail(s))

\* str.split(None, 1): at most two fields, split on the first whitespace run.
split1(s) ==
  LET t == lstrip(s)
      first == word(t)
      rest == lstrip(SubSeq(t, Len(first) + 1, Len(t)))
  IN IF t = <<>> THEN <<>>
     ELSE IF rest = <<>> THEN <<first>>
     ELSE <<first, rest>>

\* str.startswith(prefix)
startswith(s, prefix) ==
  /\ Len(s) >= Len(prefix)
  /\ SubSeq(s, 1, Len(prefix)) = prefix

\* ord() of the characters used, for str.encode("utf-8") on ASCII text.
ord(c) ==
  CASE c = " " -> 32 [] c = "\n" -> 10 [] c = "\t" -> 9
    [] c = "2" -> 50 [] c = "4" -> 52
    [] c = "b" -> 98 [] c = "c" -> 99 [] c = "d" -> 100 [] c = "e" -> 101
    [] c = "i" -> 105 [] c = "k" -> 107 [] c = "m" -> 109 [] c = "o" -> 111
    [] c = "s" -> 115 [] c = "t" -> 116 [] c = "u" -> 117 [] c = "v" -> 118

\* line.encode("utf-8")
encode(s) == [i \in 1..Len(s) |-> ord(s[i])]

\* ------------------------------------------------------------- broker data
Statuses == {200, 204, 500}

Jobs ==
  [id : 1..NumJobIds,
   work : [multiPv : {1, 3}, initialFen : {"startpos"}, moves : {<<"e2e4", "e7e5">>}]]

NoJob == [id |-> 0]

\* The commands analyse() formats, as the words of the line written.
SetOptionCmd(j) == <<"setoption", "name", "MultiPV", "value", ToString(j.work.multiPv)>>
PositionCmd(j) == <<"position", "fen", j.work.initialFen, "moves">> \o j.work.moves
GoCmd == <<"go", "depth", "25">>
UciCmd == <<"uci">>
IsReadyCmd == <<"isready">>

\* ------------------------------------------------------------------- state
VARIABLES
  pc,         \* main's position: "start", "uci", "register", "poll", "polled",
              \* "deliver", or "exit" once an exception has left main
  exc,        \* the exception that left main ("none" while it runs)
  raised,     \* the exception most recently raised anywhere ("none" at first)
  pipe,       \* engine stdout: the lines written and not yet read
  outClosed,  \* the engine has closed its stdout
  inBroken,   \* the engine no longer reads its stdin: a write raises EPIPE
  emitted,    \* number of lines the engine has written
  sent,       \* the commands written to the engine's stdin, in order
  recvRet,    \* the value Engine.recv returned last (<<>> before the first)
  discarded,  \* number of blank lines Engine.recv has read and skipped
  regs,       \* number of completed register_engine calls
  regReq,     \* the request register_engine ended with: "PUT", "POST", "none"
  secret,     \* main's secret (0 before registration)
  pollSecret, \* providerSecret carried by the last poll request
  nPolls,     \* number of poll requests issued
  res,        \* the last poll response
  okLogged,   \* the last ok() call logged an HTTPError
  job,        \* the job being handled (NoJob before the first)
  dpc,        \* position inside the delivery request of line 64: "none",
              \* "open", "start", "recv", "write", "response"
  chunks,     \* the chunks analyse(job) has yielded for the current job
  searchOut,  \* the raw lines analyse(job) has read for the current job
  mark,       \* Len(sent) when the current job was dispatched
  genEnd,     \* how the current job's generator ended: "none" (not yet),
              \* "return", "disconnect" (dropped unfinished), or the name
              \* of the exception raised in it
  awaiting    \* observer of the UCI exchange: the command written whose
              \* response has not been read to its end ("uci" until a uciok
              \* line is read, "go" until a bestmove line is read), or "none"

envVars == <<pipe, outClosed, inBroken, emitted>>
engVars == <<sent, recvRet, discarded, awaiting>>
httpVars == <<regs, regReq, secret, pollSecret, nPolls, res, okLogged>>
jobVars == <<job, dpc, chunks, searchOut, mark, genEnd>>
ctlVars == <<pc, exc, raised>>
vars == <<pc, exc, raised, pipe, outClosed, inBroken, emitted, sent, recvRet,
          discarded,
          regs, regReq, secret, pollSecret, nPolls, res, okLogged,
          job, dpc, chunks, searchOut, mark, genEnd, awaiting>>

NoRes == [status |-> 0, job |-> NoJob]

Init ==
  /\ pc = "start" /\ exc = "none" /\ raised = "none"
  /\ pipe = <<>> /\ outClosed = FALSE /\ inBroken = FALSE /\ emitted = 0
  /\ sent = <<>> /\ recvRet = <<>> /\ discarded = 0
  /\ regs = 0 /\ regReq = "none" /\ secret = 0 /\ pollSecret = 0 /\ nPolls = 0
  /\ res = NoRes /\ okLogged = FALSE
  /\ job = NoJob /\ dpc = "none" /\ chunks = <<>> /\ searchOut = <<>>
  /\ mark = 0 /\ genEnd = "none" /\ awaiting = "none"

\* ------------------------------------------------------------- environment
\* The engine process writes one line to its stdout.  A line without a
\* newline can only be read as the last one, at end of file.
EngineEmit(l) ==
  /\ pc # "exit" /\ ~outClosed /\ emitted < MaxEmit
  /\ pipe' = Append(pipe, l)
  /\ emitted' = emitted + 1
  /\ outClosed' = (l[Len(l)] # "\n")
  /\ UNCHANGED <<inBroken, ctlVars, engVars, httpVars, jobVars>>

\* The engine process closes its stdout (it exits, or closes the descriptor).
EngineCloseOut ==
  /\ pc # "exit" /\ ~outClosed
  /\ outClosed' = TRUE
  /\ UNCHANGED <<pipe, inBroken, emitted, ctlVars, engVars, httpVars, jobVars>>

\* The engine process closes its stdin: later writes fail with EPIPE.
EngineCloseIn ==
  /\ pc # "exit" /\ ~inBroken
  /\ inBroken' = TRUE
  /\ UNCHANGED <<pipe, outClosed, emitted, ctlVars, engVars, httpVars, jobVars>>

\* ------------------------------------------------------------------ Engine
\* The exchange a written command opens: uci is answered by lines up to
\* uciok, go by lines up to bestmove; the other commands have no answer.
Opens(command, open) ==
  IF command = UciCmd THEN "uci" ELSE IF command = GoCmd THEN "go" ELSE open

\* The exchange left open once the raw line p has been read.
Closes(open, p) ==
  IF open = "uci" /\ p # <<>> /\ word(lstrip(Head(p))) = w_uciok THEN "none"
  ELSE IF open = "go" /\ p # <<>> /\ startswith(Head(p), w_bestmove) THEN "none"
  ELSE open

\* The attributes an Engine instance has (class body and __init__).
EngineAttrs == {"process", "send", "recv", "recv_uci", "uci", "isready", "analyse"}

\* process.stdout.readline(): the next line, "" at end of file.
readline(p) == IF p = <<>> THEN <<>> ELSE Head(p)

\* readline blocks until a line or end of file is there.
CanRead == pipe # <<>> \/ outClosed

\* Mutant of recv: the end-of-file test is missing, so "" is stripped and,
\* being empty, skipped or returned like any line.
recv_noeof(line) ==
  IF line = <<>> THEN [kind |-> "line", ret |-> <<>>]
  ELSE IF rstrip(line) = <<>> THEN [kind |-> "skip", ret |-> <<>>]
  ELSE [kind |-> "line", ret |-> rstrip(line)]

\* One iteration of the loop of Engine.recv on the line just read:
\* "eof" raises EOFError, "skip" loops, "line" returns ret.
recv(line) ==
  IF line = <<>> THEN [kind |-> "eof", ret |-> <<>>]
  ELSE IF rstrip(line) = <<>> THEN [kind |-> "skip", ret |-> <<>>]
  ELSE [kind |-> "line", ret |-> rstrip(line)]

\* Mutant of recv_uci: the two fields are returned in the wrong order, so
\* that the arguments are taken for the command.
recv_uci_swapped(line) ==
  LET command_and_args == split1(line)
  IN IF Len(command_and_args) = 1 THEN <<command_and_args[1], <<>>>>
     ELSE <<command_and_args[2], command_and_args[1]>>

\* Engine.recv_uci on the line recv returned: (command, arguments).
recv_uci(line) ==
  LET command_and_args == split1(line)
  IN IF Len(command_and_args) = 1 THEN <<command_and_args[1], <<>>>>
     ELSE command_and_args

\* ---------------------------------------------------------------- main
\* An exception leaves main: the program ends.
Exit(e) == pc' = "exit" /\ exc' = e /\ raised' = e

\* Engine.uci, line 97: send("uci").
UciSend ==
  /\ pc = "start"
  /\ IF inBroken
       THEN Exit("BrokenPipeError") /\ UNCHANGED <<sent, awaiting>>
       ELSE /\ sent' = Append(sent, UciCmd)
            /\ awaiting' = Opens(UciCmd, awaiting)
            /\ pc' = "uci" /\ UNCHANGED <<exc, raised>>
  /\ UNCHANGED <<recvRet, discarded, envVars, httpVars, jobVars>>

\* Mutant of IsUciOk: the loop of Engine.uci breaks on the first line read.
IsUciOk_any(command) == TRUE

\* Does this command end the handshake (line 100)?
IsUciOk(command) == command = w_uciok

\* Engine.uci, lines 98-101: one readline of recv and what follows it.
UciRecv ==
  /\ pc = "uci" /\ CanRead
  /\ LET r == recv(readline(pipe))
         fields == recv_uci(r.ret)
     IN /\ pipe' = IF pipe = <<>> THEN pipe ELSE Tail(pipe)
        /\ awaiting' = Closes(awaiting, pipe)
        /\ discarded' = IF r.kind = "skip" THEN discarded + 1 ELSE discarded
        /\ IF r.kind = "eof"
             THEN Exit("EOFError") /\ UNCHANGED recvRet
           ELSE IF r.kind = "skip"
             THEN UNCHANGED <<ctlVars, recvRet>>
           ELSE /\ recvRet' = r.ret
                /\ IF Len(fields) # 2
                     THEN Exit("ValueError")   \* "line, _ =" cannot unpack
                     ELSE /\ pc' = IF IsUciOk(fields[1]) THEN "register" ELSE "uci"
                          /\ UNCHANGED <<exc, raised>>
  /\ UNCHANGED <<sent, outClosed, inBroken, emitted, httpVars, jobVars>>

\* res.raise_for_status() raises HTTPError for a 4xx or 5xx status.
HTTPError(status) == status >= 400

\* Mutant of ok: the HTTPError is logged and raised again.
ok_reraise(status) ==
  [logged |-> HTTPError(status),
   raises |-> IF HTTPError(status) THEN "HTTPError" ELSE "none"]

\* ok(res), lines 13-18: the HTTPError is caught and logged, nothing is
\* raised and res is returned.
ok(status) == [logged |-> HTTPError(status), raises |-> "none"]

\* register_engine (lines 21-44) and the assignment of line 53.  up1, up2:
\* the two requests get through; body: what the GET returned.
Register ==
  /\ pc = "register"
  /\ \E up1 \in BOOLEAN, up2 \in BOOLEAN, s \in 1..NumSecrets,
        body \in {"match", "nomatch", "invalid"} :
       IF ~up1 \/ ~up2
         THEN Exit("ConnectionError") /\ UNCHANGED <<regs, regReq, secret>>
       ELSE IF body = "invalid"
         THEN Exit("TypeError") /\ UNCHANGED <<regs, regReq, secret>>
       ELSE /\ regReq' = IF body = "match" THEN "PUT" ELSE "POST"
            /\ regs' = regs + 1
            /\ secret' = s
            /\ pc' = "poll" /\ UNCHANGED <<exc, raised>>
  /\ UNCHANGED <<pollSecret, nPolls, res, okLogged, envVars, engVars, jobVars>>

\* Mutant of Poll: the secret is generated anew for every poll request
\* (line 24's token_urlsafe moved into the loop).
Poll_rotate ==
  /\ pc = "poll" /\ nPolls < MaxPolls
  /\ \E up \in BOOLEAN, st \in Statuses, j \in Jobs, s \in 1..NumSecrets :
       /\ nPolls' = nPolls + 1
       /\ secret' = s
       /\ pollSecret' = s
       /\ IF ~up
            THEN Exit("ConnectionError") /\ UNCHANGED <<res, okLogged>>
            ELSE /\ res' = [status |-> st, job |-> IF st = 200 THEN j ELSE NoJob]
                 /\ okLogged' = HTTPError(st)
                 /\ pc' = "polled" /\ UNCHANGED <<exc, raised>>
  /\ UNCHANGED <<regs, regReq, envVars, engVars, jobVars>>

\* Line 57: the poll request and ok() on its response.
Poll ==
  /\ pc = "poll" /\ nPolls < MaxPolls
  /\ \E up \in BOOLEAN, st \in Statuses, j \in Jobs :
       /\ nPolls' = nPolls + 1
       /\ pollSecret' = secret
       /\ IF ~up
            THEN Exit("ConnectionError") /\ UNCHANGED <<res, okLogged>>
            ELSE /\ okLogged' = ok(st).logged
                 /\ IF ok(st).raises # "none"
                      THEN Exit(ok(st).raises) /\ UNCHANGED res
                      ELSE /\ res' = [status |-> st,
                                      job |-> IF st = 200 THEN j ELSE NoJob]
                           /\ pc' = "polled" /\ UNCHANGED <<exc, raised>>
  /\ UNCHANGED <<regs, regReq, secret, envVars, engVars, jobVars>>

\* Mutant of JobAssigned: every non-error status is taken for a job.
JobAssigned_noerror(status) == status < 400

\* Line 58: is this response a job?
JobAssigned(status) == status = 200

\* Mutant of Dispatch: a response without a job restarts at registration
\* (the loop head placed above line 53) instead of at the poll.
Dispatch_reregister ==
  /\ pc = "polled"
  /\ IF ~JobAssigned(res.status)
       THEN pc' = "register" /\ UNCHANGED jobVars
       ELSE /\ pc' = "deliver"
            /\ job' = res.job
            /\ dpc' = "open"
            /\ chunks' = <<>> /\ searchOut' = <<>>
            /\ mark' = Len(sent)
            /\ genEnd' = "none"
  /\ UNCHANGED <<exc, raised, envVars, engVars, httpVars>>

\* Lines 58-64: skip a response without a job; otherwise take the job and
\* create its generator (analyse(job) runs nothing yet) for the delivery.
Dispatch ==
  /\ pc = "polled"
  /\ IF ~JobAssigned(res.status)
       THEN pc' = "poll" /\ UNCHANGED jobVars
       ELSE /\ pc' = "deliver"
            /\ job' = res.job
            /\ dpc' = "open"
            /\ chunks' = <<>> /\ searchOut' = <<>>
            /\ mark' = Len(sent)
            /\ genEnd' = "none"
  /\ UNCHANGED <<exc, raised, envVars, engVars, httpVars>>

\* ---------------------------------------------------- the delivery request
\* The exceptions that are subclasses of OSError.
OSErrors == {"BrokenPipeError"}

\* requests sends the body of line 64 by iterating the generator inside its
\* own try block, which re-raises an OSError as requests ConnectionError;
\* any other exception of the generator passes through unchanged.  (See
\* WriteFailed for the one OSError some versions drop instead.)
Wrapped(e) == IF e \in OSErrors THEN "ConnectionError" ELSE e

\* Mutant of Handled: the handler catches requests' HTTPError instead.
Handled_HTTPError(e) == e = "HTTPError"

\* Line 65: the handler of the try block of lines 62-66.
Handled(e) == e = "ConnectionError"

\* Mutant of RaiseInDelivery: the handler starts the delivery request of
\* the same job again instead of going back to the poll.
RaiseInDelivery_retry(e, how) ==
  /\ raised' = e
  /\ genEnd' = IF genEnd = "none" THEN how ELSE genEnd
  /\ IF Handled(Wrapped(e))
       THEN pc' = "deliver" /\ dpc' = "open" /\ UNCHANGED exc
       ELSE pc' = "exit" /\ dpc' = "none" /\ exc' = e

\* Exception e is raised inside the try block while the request of line 64
\* is under way; the generator is dropped, having ended as how says.
RaiseInDelivery(e, how) ==
  /\ raised' = e
  /\ dpc' = "none"
  /\ genEnd' = IF genEnd = "none" THEN how ELSE genEnd
  /\ IF Handled(Wrapped(e))
       THEN pc' = "poll" /\ UNCHANGED exc
       ELSE pc' = "exit" /\ exc' = e

\* Engine.send raises BrokenPipeError inside the generator, that is inside
\* requests' sending of the body.  What requests does with it depends on its
\* version: it re-raises it as ConnectionError, or (urllib3 taking EPIPE for
\* the socket's) drops it and goes on to read the response, when dropped is
\* TRUE.  Either way the generator is finished.
WriteFailed(dropped) ==
  IF dropped
    THEN /\ raised' = "BrokenPipeError"
         /\ genEnd' = "BrokenPipeError"
         /\ dpc' = "response"
         /\ UNCHANGED <<pc, exc>>
    ELSE RaiseInDelivery("BrokenPipeError", "BrokenPipeError")

\* Engine.send inside the generator, then the generator goes on at next.
GenSend(command, next, dropped) ==
  IF inBroken
    THEN WriteFailed(dropped) /\ UNCHANGED <<sent, awaiting>>
    ELSE /\ sent' = Append(sent, command)
         /\ awaiting' = Opens(command, awaiting)
         /\ dpc' = next
         /\ UNCHANGED <<pc, exc, raised, genEnd>>

\* Lines 111-113, run by the first next() on the generator: send setoption,
\* then look up self.readyok.
GenStart(dropped) ==
  /\ IF inBroken
       THEN WriteFailed(dropped) /\ UNCHANGED <<sent, awaiting>>
       ELSE /\ sent' = Append(sent, SetOptionCmd(job))
            /\ awaiting' = Opens(SetOptionCmd(job), awaiting)
            /\ IF "readyok" \in EngineAttrs
                 THEN dpc' = "position" /\ UNCHANGED <<pc, exc, raised, genEnd>>
                 ELSE RaiseInDelivery("AttributeError", "AttributeError")
  /\ UNCHANGED <<pipe, recvRet, discarded, chunks, searchOut, okLogged>>

\* Line 120: does this line end the search?
IsBestMove(line) == startswith(line, w_bestmove)

\* Lines 117-118: one readline of recv; a line returned is encoded and
\* yielded to requests, which writes it to the socket.
GenRecv ==
  LET r == recv(readline(pipe))
  IN /\ pipe' = IF pipe = <<>> THEN pipe ELSE Tail(pipe)
     /\ searchOut' = IF pipe = <<>> THEN searchOut ELSE Append(searchOut, Head(pipe))
     /\ awaiting' = Closes(awaiting, pipe)
     /\ discarded' = IF r.kind = "skip" THEN discarded + 1 ELSE discarded
     /\ IF r.kind = "eof"
          THEN RaiseInDelivery("EOFError", "EOFError") /\ UNCHANGED <<recvRet, chunks>>
        ELSE IF r.kind = "skip"
          THEN UNCHANGED <<pc, exc, raised, dpc, genEnd, recvRet, chunks>>
        ELSE /\ recvRet' = r.ret
             /\ chunks' = Append(chunks, encode(r.ret))
             /\ dpc' = "write"
             /\ UNCHANGED <<pc, exc, raised, genEnd>>
     /\ UNCHANGED <<sent, okLogged>>

\* Lines 120-121, run by the next next(): after a bestmove line the
\* generator returns and requests goes on to read the response.
GenResume ==
  /\ IF IsBestMove(recvRet)
       THEN dpc' = "response" /\ genEnd' = "return"
       ELSE dpc' = "recv" /\ UNCHANGED genEnd
  /\ UNCHANGED <<pc, exc, raised, pipe, sent, awaiting, recvRet, discarded,
                 chunks, searchOut, okLogged>>

\* Line 64: one step of http.post(..., data=engine.analyse(job)) and of the
\* ok() around it.  requests opens the connection and sends the headers
\* ("open"), then alternates between next() on the generator ("start",
\* "position", "go", "recv") and writing the chunk it got ("write"), and
\* reads the response when the generator is exhausted ("response").
Deliver ==
  /\ pc = "deliver"
  /\ dpc = "recv" => CanRead
  /\ \E st \in Statuses, dropped \in BOOLEAN :
       CASE dpc = "open" ->
              /\ dpc' = "start"
              /\ UNCHANGED <<pc, exc, raised, pipe, sent, awaiting, recvRet,
                             discarded, chunks, searchOut, okLogged, genEnd>>
         [] dpc = "start" -> GenStart(dropped)
         [] dpc = "position" ->
              /\ GenSend(PositionCmd(job), "go", dropped)
              /\ UNCHANGED <<pipe, recvRet, discarded, chunks, searchOut, okLogged>>
         [] dpc = "go" ->
              /\ GenSend(GoCmd, "recv", dropped)
              /\ UNCHANGED <<pipe, recvRet, discarded, chunks, searchOut, okLogged>>
         [] dpc = "recv" -> GenRecv
         [] dpc = "write" -> GenResume
         [] dpc = "response" ->
              /\ okLogged' = ok(st).logged
              /\ IF ok(st).raises # "none"
                   THEN RaiseInDelivery(ok(st).raises, genEnd)
                   ELSE /\ pc' = "poll" /\ dpc' = "none"
                        /\ UNCHANGED <<exc, raised, genEnd>>
              /\ UNCHANGED <<pipe, sent, awaiting, recvRet, discarded, chunks,
                             searchOut>>
  /\ UNCHANGED <<outClosed, inBroken, emitted, regs, regReq, secret,
                 pollSecret, nPolls, res, job, mark>>

\* The broker (or the network) drops the connection of the delivery request
\* while requests does socket I/O on it: connecting, writing a chunk, or
\* reading the response.  requests raises ConnectionError.
Disconnect ==
  /\ pc = "deliver" /\ dpc \in {"open", "write", "response"}
  /\ RaiseInDelivery("ConnectionError", "disconnect")
  /\ UNCHANGED <<envVars, engVars, httpVars, job, chunks, searchOut, mark>>

\* --------------------------------------------------------- Engine.isready
\* Engine.isready (lines 103-108), called by a user of the class on the
\* engine whose handshake has returned (pc = "register": line 49 is done).
\* Line 104 looks up self.command; were it there, the loop of lines 105-108
\* would read lines (pc = "isready") until one whose command is readyok
\* (pc = "ready").
IsReady ==
  /\ pc \in {"register", "isready"}
  /\ pc = "isready" => CanRead
  /\ IF pc = "register"
       THEN /\ IF "command" \in EngineAttrs
                 THEN pc' = "isready" /\ UNCHANGED <<exc, raised>>
                 ELSE Exit("AttributeError")
            /\ UNCHANGED <<pipe, recvRet, discarded, awaiting>>
       ELSE LET r == recv(readline(pipe))
                fields == recv_uci(r.ret)
            IN /\ pipe' = IF pipe = <<>> THEN pipe ELSE Tail(pipe)
               /\ awaiting' = Closes(awaiting, pipe)
               /\ discarded' = IF r.kind = "skip" THEN discarded + 1 ELSE discarded
               /\ IF r.kind = "eof"
                    THEN Exit("EOFError") /\ UNCHANGED recvRet
                  ELSE IF r.kind = "skip"
                    THEN UNCHANGED <<ctlVars, recvRet>>
                  ELSE /\ recvRet' = r.ret
                       /\ IF Len(fields) # 2
                            THEN Exit("ValueError")
                            ELSE /\ pc' = IF fields[1] = w_readyok
                                            THEN "ready" ELSE "isready"
                                 /\ UNCHANGED <<exc, raised>>
  /\ UNCHANGED <<sent, outClosed, inBroken, emitted, httpVars, jobVars>>

\* The engine, its handshake, and a call of isready after it.
NextIsReady ==
  \/ \E l \in RawLines : EngineEmit(l)
  \/ EngineCloseOut
  \/ EngineCloseIn
  \/ UciSend
  \/ UciRecv
  \/ IsReady

SpecIsReady == Init /\ [][NextIsReady]_vars

\* ------------------------------------------------------------ specification
Next ==
  \/ \E l \in RawLines : EngineEmit(l)
  \/ EngineCloseOut
  \/ EngineCloseIn
  \/ UciSend
  \/ UciRecv
  \/ Register
  \/ Poll
  \/ Dispatch
  \/ Deliver
  \/ Disconnect

Spec == Init /\ [][Next]_vars

TypeOK ==
  /\ pc \in {"start", "uci", "register", "poll", "polled", "deliver", "exit",
            "isready", "ready"}
  /\ dpc \in {"none", "open", "start", "position", "go", "recv", "write", "response"}
  /\ (pc = "deliver") = (dpc # "none")
  /\ (pc = "exit") = (exc # "none")
  /\ Len(pipe) <= MaxEmit /\ emitted \in 0..MaxEmit
  /\ nPolls \in 0..MaxPolls
  /\ job \in Jobs \cup {NoJob}

\* ------------------------------------------------------------------ claims
\* The commands written to the engine for the current job.
JobSent == SubSeq(sent, mark + 1, Len(sent))

\* The chunks a search must yield for the engine output ls: the stripped,
\* encoded non-blank lines up to and including the first bestmove line.
RECURSIVE ChunksUpToBestmove(_)
ChunksUpToBestmove(ls) ==
  IF ls = <<>> THEN <<>>
  ELSE LET t == rstrip(Head(ls))
       IN IF t = <<>> THEN ChunksUpToBestmove(Tail(ls))
          ELSE IF startswith(t, w_bestmove) THEN <<encode(t)>>
          ELSE <<encode(t)>> \o ChunksUpToBestmove(Tail(ls))

HasBestmove(ls) == \E i \in DOMAIN ls : startswith(ls[i], w_bestmove)

\* C1: when the engine's output for a job's search ends in a bestmove line
\* and the generator of analyse has ended (other than by a failed write or
\* a dropped connection), the chunks it yielded are exactly the non-blank
\* engine lines up to and including the bestmove line, in order.
C1_ChunksThroughBestmove ==
  (genEnd \in {"return", "AttributeError", "EOFError"}
     /\ HasBestmove(searchOut \o pipe))
    => chunks = ChunksUpToBestmove(searchOut \o pipe)

\* C2: when a job's search has ended (other than by a failed write or a
\* dropped connection), the commands sent for the job are exactly setoption,
\* position, go depth 25, in this order.
C2_ThreeCommands ==
  genEnd \in {"return", "AttributeError", "EOFError"}
    => JobSent = <<SetOptionCmd(job), PositionCmd(job), GoCmd>>

\* C3: a ConnectionError raised while a job's delivery request is under way
\* does not end the program: the delivery is dropped, main is back at the
\* poll, and the step main takes from there is a poll request.
C3_DisconnectAbsorbed ==
  [][ /\ (pc = "deliver" /\ dpc' = "none" /\ raised' = "ConnectionError")
           => (pc' = "poll" /\ exc' = "none" /\ nPolls' = nPolls /\ sent' = sent)
      /\ (pc = "poll" /\ genEnd = "disconnect" /\ pc' # "poll")
           => nPolls' = nPolls + 1 ]_vars

\* C3 witness: a poll has been answered after a delivery was cut off.
C3_Witness == pc = "polled" /\ genEnd = "disconnect" /\ raised = "ConnectionError"

UciOkPending == \E i \in DOMAIN pipe : word(lstrip(pipe[i])) = w_uciok

\* C5: when the engine has closed its output during the handshake and no
\* uciok line is left to read, the handshake can only end with EOFError;
\* EOFError ends the program before any registration, poll or job, and
\* nothing happens after the program has ended.
C5_HandshakeEOF ==
  /\ [](exc = "EOFError" => (pc = "exit" /\ regs = 0 /\ nPolls = 0 /\ job = NoJob))
  /\ [][ /\ (pc = "uci" /\ outClosed /\ ~UciOkPending)
              => (pc' = "uci" /\ exc' = "none") \/ (pc' = "exit" /\ exc' = "EOFError")
         /\ pc # "exit" ]_vars

\* C5 witness: the handshake read a line that is not uciok and then hit the
\* end of the output.
C5_Witness ==
  pc = "exit" /\ exc = "EOFError" /\ sent = <<UciCmd>> /\ recvRet # <<>> /\ regs = 0

\* C6: after a poll response whose status is not 200 main goes back to the
\* poll with the engine untouched (nothing written, nothing read, no job
\* taken, no delivery begun), and the step it takes from the poll point is
\* a poll request.
C6_NoJobNoDispatch ==
  [][ /\ (pc = "polled" /\ res.status # 200)
           => /\ pc' \in {"polled", "poll"}
              /\ sent' = sent /\ recvRet' = recvRet /\ discarded' = discarded
              /\ awaiting' = awaiting
              /\ Len(pipe') >= Len(pipe)
              /\ jobVars' = jobVars
              /\ nPolls' = nPolls
      /\ (pc = "poll" /\ res.status \notin {0, 200} /\ pc' # "poll")
           => nPolls' = nPolls + 1 ]_vars

\* C6 witness: a second poll has been made and no job was ever taken.
C6_Witness == pc = "polled" /\ nPolls >= 2 /\ job = NoJob /\ Len(sent) = 1

Blank(raw) == \A i \in DOMAIN raw : raw[i] \in Whitespace

\* ret is raw without its trailing whitespace, and is not empty.
StrippedOf(ret, raw) ==
  /\ ret # <<>> /\ ret[Len(ret)] \notin Whitespace
  /\ Len(ret) <= Len(raw) /\ SubSeq(raw, 1, Len(ret)) = ret
  /\ \A i \in (Len(ret) + 1)..Len(raw) : raw[i] \in Whitespace

\* C7: recv returns only by reading a line; a blank line read is discarded
\* and nothing is returned for it; a non-blank line read is returned without
\* its trailing whitespace, never empty; EOFError is raised only when the
\* output is closed and nothing is left to read.
C7_RecvSkipsBlank ==
  [][ /\ Len(pipe') < Len(pipe) =>
           IF Blank(Head(pipe))
             THEN recvRet' = recvRet /\ pc' = pc /\ dpc' = dpc
                  /\ discarded' = discarded + 1
             ELSE StrippedOf(recvRet', Head(pipe)) /\ discarded' = discarded
      /\ Len(pipe') >= Len(pipe) => recvRet' = recvRet /\ discarded' = discarded
      /\ (raised' = "EOFError" /\ raised # "EOFError") => (outClosed /\ pipe = <<>>)
    ]_vars

\* C7 witness: recv has discarded a blank line and returned the uciok line.
C7_Witness == discarded >= 1 /\ recvRet = w_uciok /\ pc = "register"

\* C9: once a write to the engine has failed, the program has ended.
C9_WriteFailureFatal == raised = "BrokenPipeError" => pc = "exit"

\* C10: uci is the first command written and is written once; registration
\* happens at most once and only after the handshake has read its uciok;
\* polls, and everything in the loop, come after the one registration.
C10_StartupOrder ==
  /\ regs <= 1
  /\ \A i \in DOMAIN sent : (sent[i] = UciCmd) <=> (i = 1)
  /\ regs = 1 => (sent # <<>> /\ awaiting # "uci")
  /\ (nPolls > 0 \/ pc \in {"poll", "polled", "deliver"}) => regs = 1
  /\ pc \in {"start", "uci", "register"} => (regs = 0 /\ nPolls = 0)

\* C10 witness: the loop has polled twice after one handshake and one
\* registration.
C10_Witness == nPolls >= 2 /\ regs = 1 /\ sent[1] = UciCmd /\ pc = "polled"

\* C13: a call of isready that has ended (other than by the engine's
\* pipes failing) has written "isready" to the engine and has read a line
\* whose command is readyok.
C13_IsReadyAwaitsReadyok ==
  (pc = "ready" \/ exc = "AttributeError")
    => /\ \E i \in DOMAIN sent : sent[i] = IsReadyCmd
       /\ word(lstrip(recvRet)) = w_readyok

\* C14: every poll request carries main's secret, which is the value
\* register_engine returned; once registration is done no step changes it.
C14_SecretFixed ==
  /\ [](nPolls > 0 => (regs = 1 /\ pollSecret = secret /\ secret \in 1..NumSecrets))
  /\ [][ /\ regs = 1 => secret' = secret
         /\ nPolls' > nPolls => pollSecret' = secret ]_vars

\* C14 witness: a poll made after a job was dispatched and its delivery
\* dropped carries the secret of the first poll.
C14_Witness ==
  nPolls >= 2 /\ pollSecret = secret /\ secret # 0 /\ job # NoJob /\ pc = "polled"

\* C15: uci writes "uci" first; while it runs, a line read whose first
\* whitespace-separated word is uciok ends it and any other line, also one
\* with uciok further on, is discarded and leaves it running; it ends only
\* by reading such a line, reads one line per step, and once it has ended
\* no line is read before a job is taken.
C15_UciUntilUciok ==
  [][ /\ (pc = "start" /\ pc' = "uci") => sent' = <<UciCmd>>
      /\ (pc = "uci" /\ Len(pipe') < Len(pipe))
           => /\ pipe' = Tail(pipe)
              /\ IF word(lstrip(Head(pipe))) = w_uciok
                   THEN pc' = "register" ELSE pc' = "uci"
      /\ (pc = "uci" /\ pc' = "register") => Len(pipe') < Len(pipe)
      /\ pc \in {"register", "poll", "polled"} => Len(pipe') >= Len(pipe)
    ]_vars

\* C15 witness: the handshake has ended on a uciok line after discarding
\* a non-blank line before it, and the line written after it is unread.
C15_Witness ==
  /\ pc = "register" /\ word(lstrip(recvRet)) = w_uciok
  /\ emitted >= 3 /\ Len(pipe) = emitted - 2 /\ discarded = 0

\* C17: a job whose delivery has ended without the connection dropping and
\* without the engine's pipes failing has had its bestmove line delivered
\* as its last chunk, and the program is still serving.
C17_JobDelivered ==
  (job # NoJob /\ dpc = "none"
     /\ genEnd \notin {"none", "disconnect", "BrokenPipeError", "EOFError"})
    => /\ chunks # <<>>
       /\ startswith(chunks[Len(chunks)], encode(w_bestmove))
       /\ exc # "AttributeError"

\* C18: a delivery request is under way only for the job of the last poll
\* response, whose status was 200; it is begun only by the step that
\* follows that response; while it is under way no poll is made and the
\* job does not change; a poll response is only ever obtained by a new poll
\* request; and setoption is written at most once for a job.
C18_DispatchCorrespondence ==
  /\ [](pc = "deliver" => (res.status = 200 /\ job = res.job /\ job \in Jobs))
  /\ [][ /\ (dpc' = "open" /\ dpc # "open")
              => (pc = "polled" /\ res.status = 200 /\ job' = res.job)
         /\ pc = "deliver" => (nPolls' = nPolls /\ job' = job /\ res' = res)
         /\ (pc' = "polled" /\ pc # "polled") => nPolls' = nPolls + 1
         /\ (pc = "deliver" /\ Len(sent') > Len(sent)
               /\ sent'[Len(sent')] = SetOptionCmd(job)) => Len(sent) = mark
       ]_vars

\* C18 witness: the delivery of a second job, taken from a second 200
\* response, has begun.
C18_Witness ==
  pc = "deliver" /\ dpc = "start" /\ nPolls >= 2 /\ genEnd = "none" /\ mark = 1

\* C19: when the delivery request ends with a response (not with a dropped
\* connection), whatever its status, nothing is raised and main is back at
\* the poll with the job, its chunks and the engine untouched; the step it
\* takes from there is a poll request.
C19_DeliveryStatusLogged ==
  [][ /\ (pc = "deliver" /\ dpc = "response" /\ dpc' = "none"
            /\ raised' # "ConnectionError")
           => /\ pc' = "poll" /\ exc' = "none" /\ raised' = raised
              /\ sent' = sent /\ job' = job /\ chunks' = chunks
              /\ nPolls' = nPolls /\ Len(pipe') >= Len(pipe)
      /\ (pc = "poll" /\ okLogged /\ res.status = 200 /\ pc' # "poll")
           => (nPolls' = nPolls + 1 /\ sent' = sent /\ dpc' = "none")
    ]_vars

\* C19 witness: the delivery request of a job was answered with an error
\* status, which ok() logged, and main is at the poll.
C19_Witness ==
  pc = "poll" /\ okLogged /\ res.status = 200 /\ job = res.job /\ exc = "none"

====
